---- MODULE Spec2Model ----
(***************************************************************************)
(* Model of packages/tushan/client/hooks/useConfigureAdminRouterFromChildren *)
(* (tushan admin framework): the classifier of the children tree, the state *)
(* holder with its merge operation, the menu registrar and the hook that    *)
(* ties them together.                                                      *)
(*                                                                          *)
(* A React element is a record [type, props, ref]; ref is the position of   *)
(* the element in the children tree and stands for the object's identity.   *)
(* A prop that is not set is a field that is absent from props, so that     *)
(* reading it yields undefined as in JavaScript.                            *)
(***************************************************************************)
EXTENDS Integers, Sequences, FiniteSets, TLC

VARIABLES
    children,            \* children prop of the last render / classifier input
    routesAndResources,  \* state held by useState in useRoutesAndResourcesState
    result,              \* last value returned by the hook / by the classifier
    menus,               \* useMenuStore: key -> [menu, path]
    watch,               \* per registrar: filteredRoutes captured by the pending cleanup
    mounted,             \* the component calling the hook is mounted
    thrown,              \* an error was raised by a step of the registrar
    routes,              \* list observed by a single registrar
    filterFn,            \* filter of that registrar
    incoming,            \* argument of mergeRoutesAndResources
    pc                   \* position of the harness driving the operation

vars == <<children, routesAndResources, result, menus, watch, mounted, thrown,
          routes, filterFn, incoming, pc>>

----------------------------------------------------------------------------
(* Bounds *)

\* nodes in a children tree given to the classifier
MaxNodes == 3
\* nodes in a children tree given to the mounted hook
MaxHookNodes == 2
\* entries in a list observed by a single registrar
MaxRoutes == 2
\* nodes in the trees whose classifications are merged
MaxMergeNodes == 2

----------------------------------------------------------------------------
(* Elements *)

Undefined == "undefined"

\* JavaScript property read: an absent field reads as undefined
Get(obj, k) == IF k \in DOMAIN obj THEN obj[k] ELSE Undefined

\* JavaScript truthiness of a boolean-or-absent prop
Truthy(obj, k) == k \in DOMAIN obj /\ obj[k] = TRUE

FragmentType    == "Fragment"
CategoryType    == "Category"
CustomRouteType == "CustomRoute"
ResourceType    == "Resource"

WrapperTypes == {FragmentType, CategoryType}

\* React.isValidElement: strings, null, booleans are not elements
IsValidElement(element) == element.type # "#nonelement"

\* leaf templates: [type, props]
ResourceUsers == [type |-> ResourceType,
                  props |-> [name |-> "users", label |-> "Users", icon |-> "iu"]]
ResourcePosts == [type |-> ResourceType,
                  props |-> [name |-> "posts", label |-> "Posts", icon |-> "ip"]]
ResourceBare  == [type |-> ResourceType, props |-> [label |-> "Bare"]]
RouteStats    == [type |-> CustomRouteType,
                  props |-> [name |-> "stats", label |-> "Stats", icon |-> "is"]]
RouteStatsNoMenu == [type |-> CustomRouteType,
                  props |-> [name |-> "stats", label |-> "Stats", icon |-> "is",
                             noMenu |-> TRUE]]
RouteLogin    == [type |-> CustomRouteType,
                  props |-> [name |-> "login", label |-> "Login", noLayout |-> TRUE]]
RouteNoLayoutFalse == [type |-> CustomRouteType,
                  props |-> [name |-> "about", label |-> "About", noLayout |-> FALSE,
                             noMenu |-> FALSE]]
OtherDiv      == [type |-> "div", props |-> [id |-> "d"]]
NonElement    == [type |-> "#nonelement", props |-> [value |-> "null"]]

\* wrapper templates: [type, props without children]
FragmentW  == [type |-> FragmentType, props |-> [key |-> "f"]]
CategoryA  == [type |-> CategoryType, props |-> [name |-> "A", label |-> "Cat A"]]
CategoryB  == [type |-> CategoryType, props |-> [name |-> "B", icon |-> "ib"]]

WithChildren(props, kids) ==
    [k \in DOMAIN props \cup {"children"} |->
        IF k = "children" THEN kids ELSE props[k]]

\* all children lists (forests) with at most n nodes, built from the given
\* templates; the i-th child under prefix gets ref prefix \o <<i>>
RECURSIVE ForestFrom(_, _, _, _, _)
RECURSIVE TreeAt(_, _, _, _)
TreeAt(leaves, wrappers, k, ref) ==
    (IF k = 1 THEN {[type |-> l.type, props |-> l.props, ref |-> ref] : l \in leaves}
              ELSE {})
    \cup
    {[type |-> w.type, props |-> WithChildren(w.props, kids), ref |-> ref] :
        w \in wrappers, kids \in ForestFrom(leaves, wrappers, k - 1, ref, 1)}

ForestFrom(leaves, wrappers, n, prefix, i) ==
    {<<>>} \cup
    UNION {UNION {{<<t>> \o f : f \in ForestFrom(leaves, wrappers, n - k, prefix, i + 1)} :
                    t \in TreeAt(leaves, wrappers, k, Append(prefix, i))} :
           k \in 1..n}

----------------------------------------------------------------------------
(* Tree classifier *)

EmptyRoutesAndResources ==
    [customRoutesWithLayout    |-> <<>>,
     customRoutesWithoutLayout |-> <<>>,
     resources                 |-> <<>>,
     components                |-> <<>>]

\* const { children, ...currPathInfo } = categoryElement.props
CurrPathInfo(props) == [k \in DOMAIN props \ {"children"} |-> props[k]]

\* the four push(...spread) of a nested classification onto the local lists
PushAll(acc, nested) ==
    [customRoutesWithLayout    |-> acc.customRoutesWithLayout \o nested.customRoutesWithLayout,
     customRoutesWithoutLayout |-> acc.customRoutesWithoutLayout \o nested.customRoutesWithoutLayout,
     resources                 |-> acc.resources \o nested.resources,
     components                |-> acc.components \o nested.components]

\* customRoutesWithLayout.push({ path, element })
PushRouteWithLayout(acc, path, element) ==
    [acc EXCEPT !.customRoutesWithLayout =
        Append(@, [path |-> path, element |-> element])]

\* variant: the noLayout route is pushed with the path wrapper
PushRouteWithoutLayoutWrapped(acc, path, element) ==
    [acc EXCEPT !.customRoutesWithoutLayout =
        Append(@, [path |-> path, element |-> element])]

\* customRoutesWithoutLayout.push(customRouteElement)
PushRouteWithoutLayout(acc, path, element) ==
    [acc EXCEPT !.customRoutesWithoutLayout = Append(@, element)]

\* the CustomRoute branch
ClassifyCustomRoute(acc, path, element) ==
    IF Truthy(element.props, "noLayout")
        THEN PushRouteWithoutLayout(acc, path, element)
        ELSE PushRouteWithLayout(acc, path, element)

\* resources.push({ path, element })
PushResource(acc, path, element) ==
    [acc EXCEPT !.resources = Append(@, [path |-> path, element |-> element])]

\* variant: only elements matching no marker type reach components
PushComponentUnrecognizedOnly(acc, element) ==
    IF element.type \in WrapperTypes \cup {CustomRouteType, ResourceType}
        THEN acc
        ELSE [acc EXCEPT !.components = Append(@, element)]

\* components.push(element)
PushComponent(acc, element) ==
    [acc EXCEPT !.components = Append(@, element)]

\* variant: the segment is put in front: [currPathInfo, ...path]
CategoryPathPrepended(path, element) == <<CurrPathInfo(element.props)>> \o path

\* path handed to the recursion for a Category: [...path, currPathInfo]
CategoryPath(path, element) == Append(path, CurrPathInfo(element.props))

\* path handed to the recursion for a Fragment: path
FragmentPath(path, element) == path

RECURSIVE getRoutesAndResourceFromNodes(_, _)
RECURSIVE VisitElement(_, _, _)

\* body of the Children.forEach callback
VisitElement(acc, element, path) ==
    IF ~IsValidElement(element) THEN acc
    ELSE
      LET a1 == IF element.type = FragmentType
                   THEN PushAll(acc, getRoutesAndResourceFromNodes(
                                        element.props.children,
                                        FragmentPath(path, element)))
                   ELSE acc
          a2 == IF element.type = CategoryType
                   THEN PushAll(a1, getRoutesAndResourceFromNodes(
                                        element.props.children,
                                        CategoryPath(path, element)))
                   ELSE a1
          a3 == IF element.type = CustomRouteType
                   THEN ClassifyCustomRoute(a2, path, element)
                   ELSE a2
          a4 == IF element.type = ResourceType
                   THEN PushResource(a3, path, element)
                   ELSE a3
      IN PushComponent(a4, element)

getRoutesAndResourceFromNodes(nodes, path) ==
    LET RECURSIVE forEach(_, _)
        forEach(i, acc) ==
            IF i > Len(nodes) THEN acc
            ELSE forEach(i + 1, VisitElement(acc, nodes[i], path))
    IN forEach(1, EmptyRoutesAndResources)

\* inputs of the classifier
ClassifierLeaves   == {ResourceUsers, RouteStats, RouteLogin, RouteNoLayoutFalse,
                       OtherDiv, NonElement}
ClassifierWrappers == {FragmentW, CategoryA, CategoryB}
ClassifierInputs   == ForestFrom(ClassifierLeaves, ClassifierWrappers, MaxNodes, <<>>, 1)

Idle == [children |-> <<>>, routesAndResources |-> EmptyRoutesAndResources,
         result |-> EmptyRoutesAndResources, menus |-> <<>>, watch |-> <<>>,
         mounted |-> FALSE, thrown |-> FALSE, routes |-> <<>>,
         filterFn |-> "all", incoming |-> EmptyRoutesAndResources]

InitClassify ==
    /\ children \in ClassifierInputs
    /\ pc = "input"
    /\ routesAndResources = Idle.routesAndResources
    /\ result = Idle.result
    /\ menus = Idle.menus
    /\ watch = Idle.watch
    /\ mounted = Idle.mounted
    /\ thrown = Idle.thrown
    /\ routes = Idle.routes
    /\ filterFn = Idle.filterFn
    /\ incoming = Idle.incoming

\* call getRoutesAndResourceFromNodes(children) with the default path
Classify ==
    /\ pc = "input"
    /\ result' = getRoutesAndResourceFromNodes(children, <<>>)
    /\ pc' = "classified"
    /\ UNCHANGED <<children, routesAndResources, menus, watch, mounted, thrown,
                   routes, filterFn, incoming>>

NextClassify == Classify

SpecClassify == InitClassify /\ [][NextClassify]_vars

----------------------------------------------------------------------------
(* Reading the children tree by position *)

\* every node of the tree, wrappers included, at any depth below wrappers
RECURSIVE NodesOf(_)
NodesOf(forest) ==
    UNION {{forest[i]} \cup
           (IF forest[i].type \in WrapperTypes
               THEN NodesOf(forest[i].props.children) ELSE {}) :
           i \in DOMAIN forest}

\* leaf elements: valid elements that are neither Fragment nor Category
LeavesOf(forest) ==
    {e \in NodesOf(forest) : IsValidElement(e) /\ e.type \notin WrapperTypes}

RECURSIVE NodeAt(_, _)
NodeAt(forest, ref) ==
    IF Len(ref) = 1 THEN forest[ref[1]]
    ELSE NodeAt(forest[ref[1]].props.children, Tail(ref))

\* props without children of the Categories enclosing the node at ref,
\* outermost first
EnclosingCategories(forest, ref) ==
    LET RECURSIVE up(_)
        up(j) ==
            IF j = 0 THEN <<>>
            ELSE LET anc == NodeAt(forest, SubSeq(ref, 1, j))
                 IN IF anc.type = CategoryType
                       THEN Append(up(j - 1),
                                   [k \in DOMAIN anc.props \ {"children"} |-> anc.props[k]])
                       ELSE up(j - 1)
    IN up(Len(ref) - 1)

\* number of positions of seq holding x
Occurrences(seq, x) == Cardinality({i \in DOMAIN seq : seq[i] = x})

\* number of positions of a list of {path, element} entries holding element e
EntryOccurrences(seq, e) == Cardinality({i \in DOMAIN seq : seq[i].element = e})

----------------------------------------------------------------------------
(* Claims about the classifier, checked under SpecClassify *)

\* C4: every leaf element of the children tree occurs in exactly one of
\* customRoutesWithLayout, customRoutesWithoutLayout, resources when it is a
\* CustomRoute or a Resource, in none of them otherwise, and exactly once in
\* components, however deeply it is nested in Fragments and Categories.
LeafClassifiedOnce ==
    pc = "classified" =>
        \A e \in LeavesOf(children) :
            LET buckets == EntryOccurrences(result.customRoutesWithLayout, e)
                           + Occurrences(result.customRoutesWithoutLayout, e)
                           + EntryOccurrences(result.resources, e)
            IN /\ Occurrences(result.components, e) = 1
               /\ buckets = (IF e.type \in {CustomRouteType, ResourceType} THEN 1 ELSE 0)

\* a marker leaf below two nested wrappers was classified; the wrappers are
\* in components too
LeafClassifiedOnceWitness ==
    /\ pc = "classified"
    /\ \E e \in LeavesOf(children) :
          /\ e.type \in {CustomRouteType, ResourceType}
          /\ Len(e.ref) = 3
          /\ Occurrences(result.components, e) = 1
    /\ Len(result.components) = 3

\* C5: the path of every entry of resources and customRoutesWithLayout is the
\* sequence of the props-without-children of the Categories enclosing the
\* element, root first; Fragments and the leaf add nothing, and a Category
\* adds nothing to the siblings that follow it.
PathIsEnclosingCategories ==
    pc = "classified" =>
        /\ \A i \in DOMAIN result.resources :
              result.resources[i].path =
                  EnclosingCategories(children, result.resources[i].element.ref)
        /\ \A i \in DOMAIN result.customRoutesWithLayout :
              result.customRoutesWithLayout[i].path =
                  EnclosingCategories(children, result.customRoutesWithLayout[i].element.ref)
        /\ \A e \in LeavesOf(children) :
              (e.type = ResourceType \/ (e.type = CustomRouteType /\ ~Truthy(e.props, "noLayout")))
              => \E i \in DOMAIN (result.resources \o result.customRoutesWithLayout) :
                    (result.resources \o result.customRoutesWithLayout)[i] =
                        [path |-> EnclosingCategories(children, e.ref), element |-> e]

\* an entry below two different Categories got a two-segment path
PathIsEnclosingCategoriesWitness ==
    /\ pc = "classified"
    /\ \E i \in DOMAIN result.resources :
          /\ Len(result.resources[i].path) = 2
          /\ result.resources[i].path[1] = CurrPathInfo(CategoryB.props)
          /\ result.resources[i].path[2] = CurrPathInfo(CategoryA.props)

\* C6: a CustomRoute with noLayout is in customRoutesWithoutLayout as the raw
\* element, also below Categories, and not in customRoutesWithLayout; a
\* CustomRoute without noLayout is in customRoutesWithLayout as {path, element}
\* and not in customRoutesWithoutLayout.
NoLayoutRouteIsRaw ==
    pc = "classified" =>
        /\ \A e \in LeavesOf(children) :
              e.type = CustomRouteType =>
                IF Truthy(e.props, "noLayout")
                  THEN /\ Occurrences(result.customRoutesWithoutLayout, e) = 1
                       /\ EntryOccurrences(result.customRoutesWithLayout, e) = 0
                  ELSE /\ Occurrences(result.customRoutesWithLayout,
                               [path |-> EnclosingCategories(children, e.ref),
                                element |-> e]) = 1
                       /\ Occurrences(result.customRoutesWithoutLayout, e) = 0
        /\ \A i \in DOMAIN result.customRoutesWithoutLayout :
              /\ DOMAIN result.customRoutesWithoutLayout[i] = {"type", "props", "ref"}
              /\ Truthy(result.customRoutesWithoutLayout[i].props, "noLayout")
        /\ \A i \in DOMAIN result.customRoutesWithLayout :
              /\ DOMAIN result.customRoutesWithLayout[i] = {"path", "element"}
              /\ ~Truthy(result.customRoutesWithLayout[i].element.props, "noLayout")

\* a noLayout route below a Category and a layout route were both classified
NoLayoutRouteIsRawWitness ==
    /\ pc = "classified"
    /\ \E i \in DOMAIN result.customRoutesWithoutLayout :
          /\ Len(result.customRoutesWithoutLayout[i].ref) = 2
          /\ NodeAt(children, <<result.customRoutesWithoutLayout[i].ref[1]>>).type = CategoryType
    /\ Len(result.customRoutesWithLayout) = 1

----------------------------------------------------------------------------
(* Menu store (store/menu): key -> [menu, path] *)

EmptyMenus == <<>>

\* addMenu(menu, path): upsert by key
AddMenu(store, menu, path) ==
    [k \in DOMAIN store \cup {menu.key} |->
        IF k = menu.key THEN [menu |-> menu, path |-> path] ELSE store[k]]

\* removeMenu(key)
RemoveMenu(store, key) == [k \in DOMAIN store \ {key} |-> store[k]]

----------------------------------------------------------------------------
(* Menu registrar: useRegisterMenu *)

\* the default filter and the filter the hook passes for custom routes
DefaultFilter(item) == TRUE
NoMenuFilter(item) == ~Truthy(item.element.props, "noMenu")

ApplyFilter(fn, item) ==
    IF fn = "noMenu" THEN NoMenuFilter(item) ELSE DefaultFilter(item)

\* routes.filter(filterFn)
FilteredRoutes(list, fn) ==
    LET keep(item) == ApplyFilter(fn, item)
    IN SelectSeq(list, keep)

\* variant: the record is keyed by the label
MenuRecordKeyedByLabel(route) ==
    [key   |-> Get(route.element.props, "label"),
     label |-> Get(route.element.props, "label"),
     icon  |-> Get(route.element.props, "icon")]

\* the record handed to addMenu for one route
MenuRecord(route) ==
    [key   |-> Get(route.element.props, "name"),
     label |-> Get(route.element.props, "label"),
     icon  |-> Get(route.element.props, "icon")]

\* path handed to addMenu for one route
MenuPath(route) == route.path

\* filteredRoutes.forEach(route => addMenu({key, label, icon}, route.path))
RegisterRoutes(store, filtered) ==
    LET RECURSIVE forEach(_, _)
        forEach(i, st) ==
            IF i > Len(filtered) THEN st
            ELSE forEach(i + 1, AddMenu(st, MenuRecord(filtered[i]), MenuPath(filtered[i])))
    IN forEach(1, store)

\* the cleanup reads route.props.name; reading .name of an undefined props
\* raises a TypeError
CleanupThrows(route) == "props" \notin DOMAIN route

\* key handed to removeMenu by the cleanup when the read succeeds
CleanupKey(route) == Get(route.props, "name")

\* filteredRoutes.forEach(route => removeMenu(route.props.name));
\* yields the store and whether the loop was left by an exception
UnregisterRoutes(store, filtered) ==
    LET RECURSIVE forEach(_, _)
        forEach(i, st) ==
            IF i > Len(filtered) THEN [menus |-> st, thrown |-> FALSE]
            ELSE IF CleanupThrows(filtered[i]) THEN [menus |-> st, thrown |-> TRUE]
            ELSE forEach(i + 1, RemoveMenu(st, CleanupKey(filtered[i])))
    IN forEach(1, store)

\* useWatch(deps, cb): cb runs again when a member of deps changed
DepsChanged(old, new) == old # new

----------------------------------------------------------------------------
(* One registrar observing a list that is revised *)

RegistrarLeaves   == {ResourceUsers, ResourcePosts, ResourceBare, RouteStats,
                      RouteStatsNoMenu}
RegistrarWrappers == {CategoryA}
RegistrarTrees    == ForestFrom(RegistrarLeaves, RegistrarWrappers, MaxRoutes, <<>>, 1)

\* the lists the hook can hand to a registrar
ObservedLists ==
    {getRoutesAndResourceFromNodes(f, <<>>).resources : f \in RegistrarTrees}
    \cup {getRoutesAndResourceFromNodes(f, <<>>).customRoutesWithLayout : f \in RegistrarTrees}

InitRegistrar ==
    /\ pc = "unmounted"
    /\ filterFn \in {"all", "noMenu"}
    /\ routes = Idle.routes
    /\ menus = EmptyMenus
    /\ watch = Idle.watch
    /\ thrown = FALSE
    /\ mounted = FALSE
    /\ children = Idle.children
    /\ routesAndResources = Idle.routesAndResources
    /\ result = Idle.result
    /\ incoming = Idle.incoming

\* first render: the effect body runs
RegistrarMount(list) ==
    /\ pc = "unmounted"
    /\ routes' = list
    /\ menus' = RegisterRoutes(menus, FilteredRoutes(list, filterFn))
    /\ watch' = FilteredRoutes(list, filterFn)
    /\ mounted' = TRUE
    /\ pc' = "mounted"
    /\ UNCHANGED <<children, routesAndResources, result, thrown, filterFn, incoming>>

\* render with a revised list: the pending cleanup runs, then the effect
\* body.  An exception in the cleanup is caught by the renderer, which still
\* runs the effect body of the commit and then unmounts the failed tree; the
\* cleanup registered by that body runs at this unmount.
RegistrarUpdate(list) ==
    /\ pc \in {"mounted", "updated"}
    /\ DepsChanged(routes, list)
    /\ LET cleaned    == UnregisterRoutes(menus, watch)
           filtered   == FilteredRoutes(list, filterFn)
           registered == RegisterRoutes(cleaned.menus, filtered)
           atUnmount  == UnregisterRoutes(registered, filtered)
       IN /\ routes' = list
          /\ IF cleaned.thrown
                THEN /\ menus' = atUnmount.menus
                     /\ watch' = <<>>
                     /\ thrown' = TRUE
                     /\ mounted' = FALSE
                     /\ pc' = "crashed"
                ELSE /\ menus' = registered
                     /\ watch' = filtered
                     /\ thrown' = thrown
                     /\ mounted' = TRUE
                     /\ pc' = "updated"
    /\ UNCHANGED <<children, routesAndResources, result, filterFn, incoming>>

\* unmount: the pending cleanup runs
RegistrarTeardown ==
    /\ pc \in {"mounted", "updated"}
    /\ LET cleaned == UnregisterRoutes(menus, watch)
       IN /\ menus' = cleaned.menus
          /\ thrown' = (thrown \/ cleaned.thrown)
    /\ watch' = <<>>
    /\ mounted' = FALSE
    /\ pc' = "down"
    /\ UNCHANGED <<children, routesAndResources, result, routes, filterFn, incoming>>

NextRegistrar ==
    \/ \E list \in ObservedLists : RegistrarMount(list)
    \/ \E list \in ObservedLists : RegistrarUpdate(list)
    \/ RegistrarTeardown

SpecRegistrar == InitRegistrar /\ [][NextRegistrar]_vars

\* keys under which the entries of a list register
KeysOf(list) == {MenuRecord(list[i]).key : i \in DOMAIN list}

NamesDistinct(list) ==
    \A i, j \in DOMAIN list :
        i # j => Get(list[i].element.props, "name") # Get(list[j].element.props, "name")

----------------------------------------------------------------------------
(* Claims about one registrar, checked under SpecRegistrar *)

\* C1: after a re-evaluation caused by a revision of the observed list, the
\* menu store holds records for exactly the keys of the current filtered
\* list; going from [users, posts] to [users] leaves "users" and no "posts".
StoreMirrorsObservedList ==
    pc \in {"updated", "crashed"} =>
        DOMAIN menus = KeysOf(FilteredRoutes(routes, filterFn))

\* C2: from an empty store, after the first evaluation on a list of entries
\* with pairwise distinct names, the store holds exactly one record per entry
\* that passes the filter and nothing else; each record has the entry's name
\* as key, its label, its icon, and sits at the entry's path.
FirstEvaluationRegistersFiltered ==
    (pc = "mounted" /\ NamesDistinct(routes)) =>
        LET filtered == FilteredRoutes(routes, filterFn)
            nameOf(i) == Get(filtered[i].element.props, "name")
        IN /\ DOMAIN menus = {nameOf(i) : i \in DOMAIN filtered}
           /\ Cardinality(DOMAIN menus) = Len(filtered)
           /\ \A i \in DOMAIN filtered :
                 /\ menus[nameOf(i)].menu =
                       [key   |-> nameOf(i),
                        label |-> Get(filtered[i].element.props, "label"),
                        icon  |-> Get(filtered[i].element.props, "icon")]
                 /\ menus[nameOf(i)].path = filtered[i].path

\* the first evaluation registered the two entries "users" and "posts"
FirstEvaluationRegistersFilteredWitness ==
    /\ pc = "mounted"
    /\ NamesDistinct(routes)
    /\ Len(routes) = 2
    /\ Cardinality(DOMAIN menus) = 2
    /\ "users" \in DOMAIN menus
    /\ "posts" \in DOMAIN menus

\* C9: no step of the registrar (registration, cleanup before the next
\* evaluation, cleanup at teardown) raises an error.
RegistrarNeverThrows ==
    thrown = FALSE /\ pc # "crashed"

----------------------------------------------------------------------------
(* State holder: useRoutesAndResourcesState / useRoutesAndResourcesFromChildren *)

\* useState(initialState): the argument is the state of the first render
\* only; later renders return the held state
UseState(isFirstRender, held, initialState) ==
    IF isFirstRender THEN initialState ELSE held

\* useRoutesAndResourcesFromChildren(children) for one render
useRoutesAndResourcesFromChildren(isFirstRender, held, nodes) ==
    UseState(isFirstRender, held, getRoutesAndResourceFromNodes(nodes, <<>>))

\* an array stored as one member of a list
ArrayValue(list) == [items |-> list]

\* [...previous.list, newRoutesAndResources.list]
MergeList(previous, new) == Append(previous, ArrayValue(new))

\* the updater mergeRoutesAndResources hands to setRoutesAndResources
mergeRoutesAndResources(previous, new) ==
    [customRoutesWithLayout    |-> MergeList(previous.customRoutesWithLayout,
                                             new.customRoutesWithLayout),
     customRoutesWithoutLayout |-> MergeList(previous.customRoutesWithoutLayout,
                                             new.customRoutesWithoutLayout),
     resources                 |-> MergeList(previous.resources, new.resources),
     components                |-> MergeList(previous.components, new.components)]

MergeLeaves   == {ResourceUsers, RouteStats, RouteLogin, OtherDiv}
MergeWrappers == {CategoryA}
Classifications ==
    {getRoutesAndResourceFromNodes(f, <<>>) :
        f \in ForestFrom(MergeLeaves, MergeWrappers, MaxMergeNodes, <<>>, 1)}

InitMerge ==
    /\ pc = "holding"
    /\ routesAndResources \in Classifications
    /\ incoming \in Classifications
    /\ result = routesAndResources
    /\ children = Idle.children
    /\ menus = Idle.menus
    /\ watch = Idle.watch
    /\ mounted = Idle.mounted
    /\ thrown = Idle.thrown
    /\ routes = Idle.routes
    /\ filterFn = Idle.filterFn

\* mergeRoutesAndResources(incoming) followed by the render it schedules
Merge ==
    /\ pc = "holding"
    /\ routesAndResources' = mergeRoutesAndResources(routesAndResources, incoming)
    /\ result' = routesAndResources'
    /\ pc' = "merged"
    /\ UNCHANGED <<children, menus, watch, mounted, thrown, routes, filterFn, incoming>>

NextMerge == Merge

SpecMerge == InitMerge /\ [][NextMerge]_vars

\* C10: merging a new classification N into the held classification P gives,
\* for each of the four lists, P's list followed by N's list member by member:
\* the length is the sum of the lengths, order is kept, nothing is dropped,
\* and every member is an entry like the members of P and N.
MergeConcatenates ==
    [][(pc = "holding" /\ pc' = "merged") =>
          /\ routesAndResources'.customRoutesWithLayout =
                routesAndResources.customRoutesWithLayout \o incoming.customRoutesWithLayout
          /\ routesAndResources'.customRoutesWithoutLayout =
                routesAndResources.customRoutesWithoutLayout \o incoming.customRoutesWithoutLayout
          /\ routesAndResources'.resources =
                routesAndResources.resources \o incoming.resources
          /\ routesAndResources'.components =
                routesAndResources.components \o incoming.components]_vars

----------------------------------------------------------------------------
(* The hook: useConfigureAdminRouterFromChildren *)

\* the object the hook returns
HookReturn(rr) ==
    [customRoutesWithLayout    |-> rr.customRoutesWithLayout,
     customRoutesWithoutLayout |-> rr.customRoutesWithoutLayout,
     resources                 |-> rr.resources,
     components                |-> rr.components]

NoWatch == [resources |-> <<>>, customRoutes |-> <<>>]

\* the two effect bodies, in the order the hook declares them
RegisterBoth(store, rr) ==
    RegisterRoutes(RegisterRoutes(store, FilteredRoutes(rr.resources, "all")),
                   FilteredRoutes(rr.customRoutesWithLayout, "noMenu"))

HookLeaves   == {ResourceUsers, RouteStats, RouteStatsNoMenu}
HookWrappers == {CategoryA}
HookChildren == ForestFrom(HookLeaves, HookWrappers, MaxHookNodes, <<>>, 1)

Init ==
    /\ pc = "unmounted"
    /\ children = Idle.children
    /\ routesAndResources = Idle.routesAndResources
    /\ result = Idle.result
    /\ menus = EmptyMenus
    /\ watch = NoWatch
    /\ mounted = FALSE
    /\ thrown = FALSE
    /\ routes = Idle.routes
    /\ filterFn = Idle.filterFn
    /\ incoming = Idle.incoming

\* first render of a component calling the hook with children c; the menu
\* store is shared and outlives the component
HookMount(c) ==
    /\ ~mounted
    /\ LET rr == useRoutesAndResourcesFromChildren(TRUE, routesAndResources, c)
       IN /\ routesAndResources' = rr
          /\ result' = HookReturn(rr)
          /\ menus' = RegisterBoth(menus, rr)
          /\ watch' = [resources    |-> FilteredRoutes(rr.resources, "all"),
                       customRoutes |-> FilteredRoutes(rr.customRoutesWithLayout, "noMenu")]
    /\ children' = c
    /\ mounted' = TRUE
    /\ pc' = "mounted"
    /\ UNCHANGED <<thrown, routes, filterFn, incoming>>

\* one registrar at a re-render: cleanup then effect body when its list changed
RerunRegistrar(store, oldList, newList, captured, fn) ==
    IF DepsChanged(oldList, newList)
       THEN LET cleaned == UnregisterRoutes(store, captured)
            IN [menus    |-> RegisterRoutes(cleaned.menus, FilteredRoutes(newList, fn)),
                captured |-> FilteredRoutes(newList, fn),
                thrown   |-> cleaned.thrown]
       ELSE [menus |-> store, captured |-> captured, thrown |-> FALSE]

\* re-render with updated children c
HookRender(c) ==
    /\ mounted
    /\ c # children
    /\ LET rr == useRoutesAndResourcesFromChildren(FALSE, routesAndResources, c)
           r1 == RerunRegistrar(menus, routesAndResources.resources, rr.resources,
                                watch.resources, "all")
           r2 == RerunRegistrar(r1.menus, routesAndResources.customRoutesWithLayout,
                                rr.customRoutesWithLayout, watch.customRoutes, "noMenu")
       IN /\ routesAndResources' = rr
          /\ result' = HookReturn(rr)
          /\ menus' = r2.menus
          /\ watch' = [resources |-> r1.captured, customRoutes |-> r2.captured]
          /\ thrown' = (thrown \/ r1.thrown \/ r2.thrown)
    /\ children' = c
    /\ pc' = "rendered"
    /\ UNCHANGED <<mounted, routes, filterFn, incoming>>

\* unmount: both pending cleanups run, each guarded by the renderer
HookUnmount ==
    /\ mounted
    /\ LET c1 == UnregisterRoutes(menus, watch.resources)
           c2 == UnregisterRoutes(c1.menus, watch.customRoutes)
       IN /\ menus' = c2.menus
          /\ thrown' = (thrown \/ c1.thrown \/ c2.thrown)
    /\ watch' = NoWatch
    /\ mounted' = FALSE
    /\ pc' = "unmounted"
    /\ UNCHANGED <<children, routesAndResources, result, routes, filterFn, incoming>>

Next ==
    \/ \E c \in HookChildren : HookMount(c)
    \/ \E c \in HookChildren : HookRender(c)
    \/ HookUnmount

Spec == Init /\ [][Next]_vars

----------------------------------------------------------------------------
(* Claims about the hook, checked under Spec *)

\* names under which the entries of a list register
NamesIn(list) == {Get(list[i].element.props, "name") : i \in DOMAIN list}

\* C3: a layout-wrapped custom route with noMenu set has no menu record in
\* the store after registration, whatever children the hook was given before
\* (also when a menu-visible route of that name was given earlier), while the
\* route is in customRoutesWithLayout.  No resource shares the route's name
\* (nor does a menu-visible route of the same children).
NoMenuRouteHasNoRecord ==
    mounted =>
        \A i \in DOMAIN result.customRoutesWithLayout :
            LET route == result.customRoutesWithLayout[i]
                name  == Get(route.element.props, "name")
            IN (/\ Truthy(route.element.props, "noMenu")
                /\ name \notin NamesIn(result.resources)
                /\ name \notin NamesIn(FilteredRoutes(result.customRoutesWithLayout, "noMenu")))
               => name \notin DOMAIN menus

\* C7: whenever the children passed to the hook change, the four lists it
\* returns are the classification of the new children; with unchanged
\* children it returns what it returned before.
HookFollowsChildren ==
    /\ [](mounted => result = HookReturn(getRoutesAndResourceFromNodes(children, <<>>)))
    /\ [][(mounted /\ mounted' /\ children' = children) => result' = result]_vars

\* status read off the object the hook returns
StatusOf(ret) == Get(ret, "status")

\* C8: the result of the hook carries a status that is "empty" exactly when
\* the resources list is empty and "ready" when a resource is present
\* ("loading" being the third value).
HookReportsStatus ==
    mounted =>
        /\ StatusOf(result) \in {"loading", "empty", "ready"}
        /\ (StatusOf(result) = "empty") <=> (result.resources = <<>>)
        /\ (result.resources # <<>>) => (StatusOf(result) = "ready")

====
